---- MODULE Spec2Model ----
(***************************************************************************)
(* Category service of xalvion-api: the Mongoose model                     *)
(* (src/src/models/category.model.js) and the category controller          *)
(* (src/unnamed/part_000).  The document store, the media store            *)
(* (cloudinary.uploader.destroy) and the requests in flight are the state; *)
(* every await of a handler, read handlers included, is one step, so that  *)
(* requests interleave exactly where the event loop lets them.             *)
(***************************************************************************)
EXTENDS Integers, Sequences, FiniteSets, TLC

\* ------------------------------------------------------------------ bounds
\* Write requests (create, update, delete) a behaviour starts.
MaxRequests == 3

\* Levels down which an expansion of the hierarchy is followed.
MaxDepth == 5

\* Request slots: the handlers that can be in flight at the same time.
Slots == {1, 2}
\* Files one request may carry (req.files.length).
FileCounts == {0, 1}

\* ------------------------------------------------------------------ values
\* A string is a sequence of one-character strings.
Absent == <<"#">>
Null == 0
AbsentId == 0 - 1
NameInputs == { <<"a">>, <<"A">>, <<"a", "!">>, <<"a", " ", "1">>, <<" ">> }
BodySlugs == { <<"x">> }
QuerySlugs == { <<"a">>, <<"a", "-", "1">>, <<"x">> }
\* Every request starts at most one document and, with FileCounts, one image.
Ids == 1..MaxRequests
ParentInputs == {Null} \cup Ids

\* ------------------------------------------------------------------ strings
\* String.prototype.trim, as the schema's `trim: true` applies it to name.
RECURSIVE trim(_)
trim(s) ==
  IF s = <<>> THEN s
  ELSE IF Head(s) = " " THEN trim(Tail(s))
  ELSE IF s[Len(s)] = " " THEN trim(SubSeq(s, 1, Len(s) - 1))
  ELSE s

\* Strip leading and trailing hyphens.
RECURSIVE trimHyphens(_)
trimHyphens(s) ==
  IF s = <<>> THEN s
  ELSE IF Head(s) = "-" THEN trimHyphens(Tail(s))
  ELSE IF s[Len(s)] = "-" THEN trimHyphens(SubSeq(s, 1, Len(s) - 1))
  ELSE s

\* One character of the name -> slug transformation: lower-casing,
\* whitespace and punctuation to hyphens.
slugChar(c) ==
  IF c = "A" THEN "a"
  ELSE IF c \in {" ", "!", "-"} THEN "-"
  ELSE c

\* createSlug of ../utils/slug.
createSlug(name) == trimHyphens([i \in 1..Len(name) |-> slugChar(name[i])])

\* Decimal digits of a natural number, as `${count}` prints them.
DigitChars == <<"0", "1", "2", "3", "4", "5", "6", "7", "8", "9">>
RECURSIVE numberToString(_)
numberToString(n) ==
  IF n < 10 THEN <<DigitChars[n + 1]>>
  ELSE numberToString(n \div 10) \o <<DigitChars[(n % 10) + 1]>>

\* The suffix taken after the increment (`++count` for `count++`).
suffixedSlugPreIncrement(name, count) ==
  createSlug(name) \o <<"-">> \o numberToString(count + 1)

\* `${createSlug(this.name)}-${count}`
suffixedSlug(name, count) == createSlug(name) \o <<"-">> \o numberToString(count)

\* ------------------------------------------------------------------ state
VARIABLES
  store,         \* the Category collection: _id -> document
  nextId,        \* next ObjectId of a Category document
  nextAsset,     \* next ObjectId of an image sub-document
  destroyCalls,  \* media store: destroy calls issued so far, per asset id
  reqs,          \* the handler in flight in each slot
  lastResponse,  \* the response the last step sent, if it sent one
  started        \* write requests started so far

vars == <<store, nextId, nextAsset, destroyCalls, reqs, lastResponse, started>>

Idle == [op |-> "idle"]
NoResponse == [op |-> "none", status |-> "none", id |-> Null, payload |-> <<>>]
Response(op, status, id, payload) ==
  [op |-> op, status |-> status, id |-> id, payload |-> payload]

Init ==
  /\ store = <<>>
  /\ nextId = 1
  /\ nextAsset = 1
  /\ destroyCalls = <<>>
  /\ reqs = [r \in Slots |-> Idle]
  /\ lastResponse = NoResponse
  /\ started = 0

\* A new write request takes the lowest free slot.
Accept(r) ==
  /\ started < MaxRequests
  /\ started' = started + 1
  /\ reqs[r].op = "idle"
  /\ \A q \in Slots : q < r => reqs[q].op # "idle"

\* The handlers that only read the collection.
ReadOps == {"getCategory", "getAllCategories", "getAllSubCategories"}

\* A read handler takes any free slot.
AcceptRead(r) == reqs[r].op = "idle"

\* The handler in slot r ends with response `resp`.
Finish(r, resp) ==
  /\ reqs' = [reqs EXCEPT ![r] = Idle]
  /\ lastResponse' = resp
  /\ UNCHANGED started

\* A read handler in flight notes that the collection changed under it (a
\* history field: the handler itself never learns it).
disturbed(q) == IF q.op \in ReadOps THEN [q EXCEPT !.undisturbed = FALSE] ELSE q

\* The handler in slot r ends with response `resp`, its write having left
\* the collection as `st`.
FinishWrite(r, resp, st) ==
  /\ reqs' = [q \in Slots |-> IF q = r THEN Idle
                              ELSE IF st # store THEN disturbed(reqs[q])
                              ELSE reqs[q]]
  /\ lastResponse' = resp
  /\ UNCHANGED started

\* The handler in slot r goes on to its next await.
Continue(r, q) ==
  /\ reqs' = [reqs EXCEPT ![r] = q]
  /\ lastResponse' = NoResponse

\* ------------------------------------------------------------------ store
\* Model.findOne({ slug }): is there a document with that slug?
findOneSlug(st, slug) == \E j \in DOMAIN st : st[j].slug = slug

\* Only name is indexed unique; slug is an ordinary field.
duplicateKeyNameOnly(st, id, doc) ==
  IF \E j \in DOMAIN st \ {id} : st[j].name = doc.name THEN "name" ELSE "none"

\* The unique indexes (name: unique, slug: unique): the key a write of `doc`
\* under _id `id` would duplicate, "none" when it duplicates none.
duplicateKey(st, id, doc) ==
  IF \E j \in DOMAIN st \ {id} : st[j].name = doc.name THEN "name"
  ELSE IF \E j \in DOMAIN st \ {id} : st[j].slug = doc.slug THEN "slug"
  ELSE "none"

\* The collection with `doc` written under `id`.
put(st, id, doc) == [j \in DOMAIN st \cup {id} |-> IF j = id THEN doc ELSE st[j]]
\* The collection without `id`.
remove(st, id) == [j \in DOMAIN st \ {id} |-> st[j]]

\* req.files.map(file => ({ url, altText, type })): one image sub-document per
\* file; the store gives each its own _id, which img.id reads.
filesToImages(n, first) == [k \in 1..n |-> [id |-> first + k - 1]]

\* ------------------------------------------------------------------ create
CreateBodies ==
  [name : NameInputs, slug : {Absent} \cup BodySlugs,
   parent : {AbsentId} \cup ParentInputs, files : FileCounts]

\* Category.create(req.body): the document is constructed and validated
\* (name is required, after trim), then pre("save") starts: the candidate
\* slug and its first findOne. The parent is stored as sent, whatever it
\* names: no document, a document yet to come, or the document itself (a
\* body that sends as _id the id it names as parent; bodies here send no
\* _id and the store's next id stands for it).
CategoryCreate(r, body) ==
  /\ LET name == trim(body.name) IN
     IF name = <<>>
     THEN /\ lastResponse' = Response("create", "validationError", Null, <<>>)
          /\ UNCHANGED <<store, nextId, nextAsset, destroyCalls, reqs>>
     ELSE /\ Continue(r,
               [op |-> "create", pc |-> "presave", id |-> nextId,
                doc |-> [name |-> name, slug |-> body.slug,
                         parent |-> IF body.parent = AbsentId THEN Null ELSE body.parent,
                         images |-> filesToImages(body.files, nextAsset)],
                slug |-> createSlug(name),
                slugExists |-> findOneSlug(store, createSlug(name)),
                count |-> 1])
          /\ nextId' = nextId + 1
          /\ nextAsset' = nextAsset + body.files
          /\ UNCHANGED <<store, destroyCalls>>

createCategory(r, body) ==
  /\ Accept(r)
  /\ CategoryCreate(r, body)

\* req.body.parent = req.params.parentId, then as createCategory.
createSubCategory(r, parentId, body) ==
  /\ Accept(r)
  /\ CategoryCreate(r, [body EXCEPT !.parent = parentId])

\* pre("save"), one turn of `while (slugExists)`.
preSaveLoop(r) ==
  /\ reqs[r].op = "create"
  /\ reqs[r].slugExists
  /\ LET slug == suffixedSlug(reqs[r].doc.name, reqs[r].count) IN
     Continue(r, [reqs[r] EXCEPT !.slug = slug,
                                 !.count = reqs[r].count + 1,
                                 !.slugExists = findOneSlug(store, slug)])
  /\ UNCHANGED <<store, nextId, nextAsset, destroyCalls, started>>

\* The document pre("save") hands to the insert: this.slug = slug.
preSaveDoc(q) == [q.doc EXCEPT !.slug = q.slug]

\* The insert of Category.create, after pre("save") left its loop.
saveInsert(r) ==
  /\ reqs[r].op = "create"
  /\ ~reqs[r].slugExists
  /\ LET doc == preSaveDoc(reqs[r])
         dup == duplicateKey(store, reqs[r].id, doc) IN
     IF dup # "none"
     THEN /\ Finish(r, Response("create", "duplicateKey", reqs[r].id, <<doc>>))
          /\ UNCHANGED store
     ELSE /\ FinishWrite(r, Response("create", "created", reqs[r].id, <<doc>>),
                         put(store, reqs[r].id, doc))
          /\ store' = put(store, reqs[r].id, doc)
  /\ UNCHANGED <<nextId, nextAsset, destroyCalls>>

\* The insert raises (the persistence layer fails).
saveInsertFails(r) ==
  /\ reqs[r].op = "create"
  /\ ~reqs[r].slugExists
  /\ Finish(r, Response("create", "storeError", reqs[r].id, <<>>))
  /\ UNCHANGED <<store, nextId, nextAsset, destroyCalls>>

\* ------------------------------------------------------------------ media
\* Destroy calls the media store has received for asset `a`.
calls(log, a) == IF a \in DOMAIN log THEN log[a] ELSE 0

\* `if (img.id) await cloudinary.uploader.destroy(img.id)`: the call of one
\* turn of the loop is issued.
destroyIssued(log, img) ==
  IF img.id # Null
  THEN [a \in DOMAIN log \cup {img.id} |-> IF a = img.id THEN calls(log, a) + 1 ELSE log[a]]
  ELSE log

\* One turn of `for (const img of category.images)`; the call returns.
destroyTurn(r) ==
  /\ reqs[r].pc = "destroy"
  /\ reqs[r].i < Len(reqs[r].images)
  /\ destroyCalls' = destroyIssued(destroyCalls, reqs[r].images[reqs[r].i + 1])
  /\ Continue(r, [reqs[r] EXCEPT !.i = reqs[r].i + 1])
  /\ UNCHANGED <<store, nextId, nextAsset, started>>

\* One turn of the loop; the call raises and the handler ends.
destroyTurnFails(r) ==
  /\ reqs[r].pc = "destroy"
  /\ reqs[r].i < Len(reqs[r].images)
  /\ reqs[r].images[reqs[r].i + 1].id # Null
  /\ destroyCalls' = destroyIssued(destroyCalls, reqs[r].images[reqs[r].i + 1])
  /\ Finish(r, Response(reqs[r].op, "mediaError", reqs[r].id, <<>>))
  /\ UNCHANGED <<store, nextId, nextAsset>>

\* ------------------------------------------------------------------ update
\* req.body of an update: at most one of name, slug and parent, and the files.
UpdateBodies ==
  { b \in [name : {Absent} \cup NameInputs, slug : {Absent} \cup BodySlugs,
           parent : {AbsentId} \cup ParentInputs, files : FileCounts] :
      Cardinality({f \in {"name", "slug", "parent"} :
                     \/ f = "name" /\ b.name # Absent
                     \/ f = "slug" /\ b.slug # Absent
                     \/ f = "parent" /\ b.parent # AbsentId}) <= 1 }

\* The document findByIdAndUpdate writes: the fields of the body replace the
\* stored ones, nothing else is touched (no pre("save") runs on this path).
updatedDoc(doc, body, images) ==
  [name |-> IF body.name = Absent THEN doc.name ELSE trim(body.name),
   slug |-> IF body.slug = Absent THEN doc.slug ELSE body.slug,
   parent |-> IF body.parent = AbsentId THEN doc.parent ELSE body.parent,
   images |-> IF body.files > 0 THEN images ELSE doc.images]

\* Model.findByIdAndUpdate(id, body, { new: true, runValidators: true }):
\* the status and the collection afterwards. The update validators run on
\* the update document before the store is asked for the id.
findByIdAndUpdate(st, id, body, images) ==
  IF body.name # Absent /\ trim(body.name) = <<>>
  THEN [status |-> "validationError", found |-> FALSE, store |-> st]
  ELSE IF id \notin DOMAIN st THEN [status |-> "ok", found |-> FALSE, store |-> st]
  ELSE IF duplicateKey(st, id, updatedDoc(st[id], body, images)) # "none"
  THEN [status |-> "duplicateKey", found |-> FALSE, store |-> st]
  ELSE [status |-> "ok", found |-> TRUE,
        store |-> put(st, id, updatedDoc(st[id], body, images))]

\* updateCategory / updateSubCategory up to the end of findById.
updateCategory(r, id, body) ==
  /\ Accept(r)
  /\ IF id \notin DOMAIN store
     THEN /\ lastResponse' = Response("update", "notFound", id, <<>>)
          /\ UNCHANGED <<store, nextId, nextAsset, destroyCalls, reqs>>
     ELSE /\ Continue(r,
               [op |-> "update", pc |-> IF body.files > 0 THEN "destroy" ELSE "write",
                id |-> id, body |-> body, images |-> store[id].images, i |-> 0,
                newImages |-> filesToImages(body.files, nextAsset)])
          /\ nextAsset' = nextAsset + body.files
          /\ UNCHANGED <<store, nextId, destroyCalls>>

updateDestroy(r) ==
  /\ reqs[r].op = "update"
  /\ destroyTurn(r)

updateDestroyFails(r) ==
  /\ reqs[r].op = "update"
  /\ destroyTurnFails(r)

\* The handler's loop over the images it loaded is over (or was not entered).
loopDone(q) == q.pc = "write" \/ (q.pc = "destroy" /\ q.i = Len(q.images))

\* updateCategory / updateSubCategory: findByIdAndUpdate and the response.
updateWrite(r) ==
  /\ reqs[r].op = "update"
  /\ loopDone(reqs[r])
  /\ LET res == findByIdAndUpdate(store, reqs[r].id, reqs[r].body, reqs[r].newImages) IN
     /\ store' = res.store
     /\ FinishWrite(r, Response("update", res.status, reqs[r].id,
                                IF res.found THEN <<res.store[reqs[r].id]>> ELSE <<>>),
                    res.store)
  /\ UNCHANGED <<nextId, nextAsset, destroyCalls>>

\* findByIdAndUpdate raises (the persistence layer fails).
updateWriteFails(r) ==
  /\ reqs[r].op = "update"
  /\ loopDone(reqs[r])
  /\ Finish(r, Response("update", "storeError", reqs[r].id, <<>>))
  /\ UNCHANGED <<store, nextId, nextAsset, destroyCalls>>

\* ------------------------------------------------------------------ delete
\* deleteCategory / deleteSubCategory up to the end of findById.
deleteCategory(r, id) ==
  /\ Accept(r)
  /\ IF id \notin DOMAIN store
     THEN /\ lastResponse' = Response("delete", "notFound", id, <<>>)
          /\ UNCHANGED reqs
     ELSE Continue(r, [op |-> "delete", pc |-> "destroy", id |-> id,
                       images |-> store[id].images, i |-> 0])
  /\ UNCHANGED <<store, nextId, nextAsset, destroyCalls>>

deleteDestroy(r) ==
  /\ reqs[r].op = "delete"
  /\ destroyTurn(r)

deleteDestroyFails(r) ==
  /\ reqs[r].op = "delete"
  /\ destroyTurnFails(r)

\* deleteCategory / deleteSubCategory: findByIdAndDelete and the response.
deleteWrite(r) ==
  /\ reqs[r].op = "delete"
  /\ loopDone(reqs[r])
  /\ store' = remove(store, reqs[r].id)
  /\ FinishWrite(r, Response("delete", "deleted", reqs[r].id, <<>>),
                 remove(store, reqs[r].id))
  /\ UNCHANGED <<nextId, nextAsset, destroyCalls>>

\* findByIdAndDelete raises (the persistence layer fails).
deleteWriteFails(r) ==
  /\ reqs[r].op = "delete"
  /\ loopDone(reqs[r])
  /\ Finish(r, Response("delete", "storeError", reqs[r].id, <<>>))
  /\ UNCHANGED <<store, nextId, nextAsset, destroyCalls>>

\* ------------------------------------------------------------------ reads
\* A finite set of numbers in increasing order.
RECURSIVE ascending(_)
ascending(S) ==
  IF S = {} THEN <<>>
  ELSE LET m == CHOOSE x \in S : \A y \in S : x <= y
       IN <<m>> \o ascending(S \ {m})

\* The virtual `children` (localField _id, foreignField parent), populated:
\* the ids of the documents whose parent is `id`.
children(st, id) == ascending({j \in DOMAIN st : st[j].parent = id})

\* A document the expansion holds: its id, the entry it was listed under
\* (0 for a document of the first query), and whether its own children
\* have been populated.
entry(id, up, depth) == [id |-> id, up |-> up, depth |-> depth, populated |-> FALSE]

\* The children of the first pending document are populated and listed, none
\* of them expanded in its turn.
populateOneLevel(st, q) ==
  LET i == Head(q.todo)
      kids == children(st, q.nodes[i].id)
      added == [k \in 1..Len(kids) |-> entry(kids[k], i, q.nodes[i].depth + 1)]
  IN [q EXCEPT !.nodes = [q.nodes EXCEPT ![i].populated = TRUE] \o added,
               !.todo = Tail(q.todo)]

\* populateChildrenRecursively(category), one call up to the end of its
\* `await category.populate(...)`: the children of the pending document are
\* populated, and the calls on them come next, in order, before the pending
\* calls on the documents listed earlier.
populateChildrenRecursively(st, q) ==
  LET i == Head(q.todo)
      kids == children(st, q.nodes[i].id)
      n == Len(q.nodes)
      added == [k \in 1..Len(kids) |-> entry(kids[k], i, q.nodes[i].depth + 1)]
  IN [q EXCEPT !.nodes = [q.nodes EXCEPT ![i].populated = TRUE] \o added,
               !.todo = [k \in 1..Len(kids) |-> n + k] \o Tail(q.todo)]

\* The document of entry i as the response serializes it: `children` is there
\* once populated (an empty array for a leaf), each child serialized alike.
RECURSIVE expanded(_, _)
expanded(nodes, i) ==
  IF ~nodes[i].populated THEN [id |-> nodes[i].id]
  ELSE LET kids == ascending({j \in 1..Len(nodes) : nodes[j].up = i})
       IN [id |-> nodes[i].id,
           children |-> [k \in 1..Len(kids) |-> expanded(nodes, kids[k])]]

\* The response of a read handler: `undisturbed` tells whether the collection
\* stayed as it was from the handler's first query on (a history field).
ReadResponse(q, status, payload) ==
  [op |-> q.op, status |-> status, id |-> q.id, payload |-> payload,
   undisturbed |-> q.undisturbed]

\* The documents of the first query, each expanded.
expandedResponse(q) ==
  LET tops == ascending({j \in 1..Len(q.nodes) : q.nodes[j].up = 0})
  IN ReadResponse(q, "ok", [k \in 1..Len(tops) |-> expanded(q.nodes, tops[k])])

\* One call of populateChildrenRecursively in the handler of slot r; the
\* handler answers when no call is pending. The code has no test of depth:
\* on a cycle of the parent relation the calls go on for as long as the
\* cycle is there. Here they are followed down to MaxDepth, and a handler
\* that has to go deeper stays in flight, unanswered.
expandTurn(r) ==
  /\ reqs[r].nodes[Head(reqs[r].todo)].depth <= MaxDepth
  /\ LET q == populateChildrenRecursively(store, reqs[r]) IN
     IF q.todo = <<>>
     THEN Finish(r, expandedResponse(q))
     ELSE Continue(r, q)
  /\ UNCHANGED <<store, nextId, nextAsset, destroyCalls, started>>

\* getCategory: findOne({ slug }), 404 when there is none.
getCategory(r, slug) ==
  /\ AcceptRead(r)
  /\ IF ~findOneSlug(store, slug)
     THEN /\ lastResponse' = Response("getCategory", "notFound", Null, <<>>)
          /\ UNCHANGED reqs
     ELSE LET id == CHOOSE j \in DOMAIN store : store[j].slug = slug IN
          Continue(r, [op |-> "getCategory", id |-> id,
                       nodes |-> <<entry(id, 0, 1)>>, todo |-> <<1>>,
                       undisturbed |-> TRUE])
  /\ UNCHANGED <<store, nextId, nextAsset, destroyCalls, started>>

\* getCategory: the expansion of the category, then the response.
getCategoryPopulate(r) ==
  /\ reqs[r].op = "getCategory"
  /\ expandTurn(r)

\* getAllCategories: find({ parent: null }).
getAllCategories(r) ==
  /\ AcceptRead(r)
  /\ LET tops == ascending({j \in DOMAIN store : store[j].parent = Null}) IN
     IF tops = <<>>
     THEN /\ lastResponse' = Response("getAllCategories", "ok", Null, <<>>)
          /\ UNCHANGED reqs
     ELSE Continue(r, [op |-> "getAllCategories", id |-> Null,
                       nodes |-> [k \in 1..Len(tops) |-> entry(tops[k], 0, 1)],
                       todo |-> [k \in 1..Len(tops) |-> k],
                       undisturbed |-> TRUE])
  /\ UNCHANGED <<store, nextId, nextAsset, destroyCalls, started>>

\* getAllCategories: the expansion of each top-level category in turn, then
\* the response.
getAllCategoriesPopulate(r) ==
  /\ reqs[r].op = "getAllCategories"
  /\ expandTurn(r)

\* getAllSubCategories: `filter.parent = parentId` only when the query has one.
subCategoryFilter(st, parentId) ==
  IF parentId # Null
  THEN {j \in DOMAIN st : st[j].parent = parentId}
  ELSE DOMAIN st

\* req.query of getAllSubCategories: "" and Null stand for an option that
\* is not sent.
ListQueries ==
  [parentId : ParentInputs, sort : {"", "-_id"}, fields : {"", "-parent"},
   page : {Null, 2}, limit : {Null, 1}]

\* A sequence back to front.
reverse(seq) == [k \in 1..Len(seq) |-> seq[Len(seq) + 1 - k]]

\* APIFeatures.sort(): the order the request asks for, the order of the find
\* when it asks for none.
sort(found, query) == IF query.sort = "-_id" THEN reverse(found) ELSE found

\* APIFeatures.limitFields(): the fields of a document the projection keeps.
limitFields(doc, query) == IF query.fields = "-parent" THEN [id |-> doc.id] ELSE doc

\* The page size when the request sends none.
DefaultLimit == 10

\* The page and the page size of the request, after the defaults.
page(query) == IF query.page = Null THEN 1 ELSE query.page
limit(query) == IF query.limit = Null THEN DefaultLimit ELSE query.limit

\* APIFeatures.paginate(total), the query: skip (page - 1) * limit documents,
\* take limit.
paginate(found, query) ==
  LET skip == (page(query) - 1) * limit(query)
      last == IF skip + limit(query) < Len(found) THEN skip + limit(query) ELSE Len(found)
  IN SubSeq(found, skip + 1, last)

\* APIFeatures.paginate(total), features.pagination: computed against the
\* total counted beforehand.
pagination(total, query) ==
  [total |-> total, page |-> page(query), limit |-> limit(query),
   pages |-> (total + limit(query) - 1) \div limit(query)]

\* getAllSubCategories: Category.countDocuments(filter).
getAllSubCategories(r, query) ==
  /\ AcceptRead(r)
  /\ Continue(r, [op |-> "getAllSubCategories", pc |-> "find", id |-> query.parentId,
                  query |-> query,
                  total |-> Cardinality(subCategoryFilter(store, query.parentId)),
                  found |-> <<>>, undisturbed |-> TRUE])
  /\ UNCHANGED <<store, nextId, nextAsset, destroyCalls, started>>

\* getAllSubCategories: `await features.query`, the find: the documents of
\* the filter, sorted, cut to the page, projected.
getAllSubCategoriesFind(r) ==
  /\ reqs[r].op = "getAllSubCategories"
  /\ reqs[r].pc = "find"
  /\ LET found == paginate(sort(ascending(subCategoryFilter(store, reqs[r].id)),
                                reqs[r].query),
                           reqs[r].query) IN
     Continue(r, [reqs[r] EXCEPT
                    !.pc = "populate",
                    !.found = [k \in 1..Len(found) |->
                                 limitFields([id |-> found[k],
                                              parent |-> store[found[k]].parent],
                                             reqs[r].query)]])
  /\ UNCHANGED <<store, nextId, nextAsset, destroyCalls, started>>

\* populate("parent", "name slug type"): the parent a document references,
\* null when the collection holds no such document; nothing for a document
\* whose projection has no parent.
populateParent(st, doc) ==
  IF "parent" \notin DOMAIN doc THEN doc
  ELSE [doc EXCEPT !.parent = IF doc.parent \in DOMAIN st THEN doc.parent ELSE Null]

\* What getAllSubCategories answers: the documents found, their parents
\* populated, and the pagination with the total counted before the find.
getAllSubCategoriesResponse(st, q) ==
  [op |-> q.op, status |-> "ok", id |-> q.id,
   payload |-> [k \in 1..Len(q.found) |-> populateParent(st, q.found[k])],
   pagination |-> pagination(q.total, q.query), undisturbed |-> q.undisturbed]

\* getAllSubCategories: the population of the parents, then the response.
getAllSubCategoriesPopulate(r) ==
  /\ reqs[r].op = "getAllSubCategories"
  /\ reqs[r].pc = "populate"
  /\ Finish(r, getAllSubCategoriesResponse(store, reqs[r]))
  /\ UNCHANGED <<store, nextId, nextAsset, destroyCalls>>

\* ------------------------------------------------------------------ specs
\* The steps of the create handlers, over request bodies CB and parents P.
Creates(S, CB, P) ==
  \/ \E r \in S, body \in CB : createCategory(r, body)
  \/ \E r \in S, parentId \in P, body \in CB : createSubCategory(r, parentId, body)
  \/ \E r \in S : preSaveLoop(r)
  \/ \E r \in S : saveInsert(r)
  \/ \E r \in S : saveInsertFails(r)

\* The steps of the update and delete handlers, over request bodies UB.
Writes(S, UB) ==
  \/ \E r \in S, id \in Ids, body \in UB : updateCategory(r, id, body)
  \/ \E r \in S : updateWrite(r)
  \/ \E r \in S : updateWriteFails(r)
  \/ \E r \in S, id \in Ids : deleteCategory(r, id)
  \/ \E r \in S : deleteWrite(r)
  \/ \E r \in S : deleteWriteFails(r)

\* The turns of the handlers' media loops.
Destroys(S) ==
  \/ \E r \in S : updateDestroy(r)
  \/ \E r \in S : updateDestroyFails(r)
  \/ \E r \in S : deleteDestroy(r)
  \/ \E r \in S : deleteDestroyFails(r)

\* The steps of the read handlers, over the listing queries Q.
Reads(S, Q) ==
  \/ \E r \in S, slug \in QuerySlugs : getCategory(r, slug)
  \/ \E r \in S : getCategoryPopulate(r)
  \/ \E r \in S : getAllCategories(r)
  \/ \E r \in S : getAllCategoriesPopulate(r)
  \/ \E r \in S, query \in Q : getAllSubCategories(r, query)
  \/ \E r \in S : getAllSubCategoriesFind(r)
  \/ \E r \in S : getAllSubCategoriesPopulate(r)

\* The whole service.
Next ==
  \/ Creates(Slots, CreateBodies, Ids)
  \/ Writes(Slots, UpdateBodies)
  \/ Destroys(Slots)
  \/ Reads(Slots, ListQueries)

Spec == Init /\ [][Next]_vars

\* Requests interleaved: names that share a slug, images, no hierarchy.
RaceNames == { <<"a">>, <<"A">>, <<"a", " ", "1">> }
RaceCreateBodies ==
  [name : RaceNames, slug : {Absent} \cup BodySlugs, parent : {AbsentId}, files : FileCounts]
RaceUpdateBodies ==
  { b \in UpdateBodies :
      b.parent = AbsentId /\ b.name \in {Absent, <<"A">>, <<"a", " ", "1">>, <<" ">>} }
RaceNext ==
  \/ \E r \in Slots, body \in RaceCreateBodies : createCategory(r, body)
  \/ \E r \in Slots : preSaveLoop(r)
  \/ \E r \in Slots : saveInsert(r)
  \/ \E r \in Slots : saveInsertFails(r)
  \/ Writes(Slots, RaceUpdateBodies)
  \/ Destroys(Slots)

RaceSpec == Init /\ [][RaceNext]_vars

\* The hierarchy: one write handler and one read handler at a time, the
\* steps of the two interleaved; parents, no images, one name for a
\* category created at the top and two for those created under a parent.
TreeCreateBodies ==
  [name : {<<"a">>}, slug : {Absent}, parent : {AbsentId}, files : {0}]
TreeSubCreateBodies ==
  [name : {<<"A">>, <<"a", " ", "1">>}, slug : {Absent}, parent : {AbsentId}, files : {0}]
TreeUpdateBodies ==
  { b \in UpdateBodies : b.files = 0 /\ b.name = Absent /\ b.slug = Absent }
\* Listings: everything or the children of 1, no option; the children of 1
\* back to front, second page of one; the children of 1 without `parent`.
TreeListQueries ==
  { q \in ListQueries :
      \/ q.parentId \in {Null, 1} /\ q.sort = "" /\ q.fields = ""
           /\ q.page = Null /\ q.limit = Null
      \/ q.parentId = 1 /\ q.sort = "-_id" /\ q.fields = "" /\ q.page = 2 /\ q.limit = 1
      \/ q.parentId = 1 /\ q.sort = "" /\ q.fields = "-parent"
           /\ q.page = Null /\ q.limit = Null }
TreeNext ==
  \/ \E r \in {1}, body \in TreeCreateBodies : createCategory(r, body)
  \/ \E r \in {1}, parentId \in Ids, body \in TreeSubCreateBodies :
       createSubCategory(r, parentId, body)
  \/ \E r \in {1} : preSaveLoop(r)
  \/ \E r \in {1} : saveInsert(r)
  \/ \E r \in {1} : saveInsertFails(r)
  \/ Writes({1}, TreeUpdateBodies)
  \/ Reads({2}, TreeListQueries)

TreeSpec == Init /\ [][TreeNext]_vars

\* Creations only, one at a time: every name, a client-sent slug, no images.
OnlyCreateBodies ==
  [name : NameInputs, slug : {Absent} \cup BodySlugs, parent : {AbsentId}, files : {0}]
CreateNext == Creates({1}, OnlyCreateBodies, {1})

CreateSpec == Init /\ [][CreateNext]_vars

\* ------------------------------------------------------------------ claims
StoredIds == DOMAIN store

\* The n-th slug of the sequence t, t-1, t-2, ...
candidate(t, n) == IF n = 0 THEN t ELSE t \o <<"-">> \o numberToString(n)

\* Documents persisted before j (one creation at a time: in _id order).
Earlier(j) == {i \in StoredIds : i < j}

\* C1 (as stated): after sequential creations, the first category whose name
\* slugifies to t has slug t and the k-th later one with the same t has t-k.
C1_SlugByCreationOrder ==
  \A j \in StoredIds :
    LET t == createSlug(store[j].name)
        k == Cardinality({i \in Earlier(j) : createSlug(store[i].name) = t})
    IN store[j].slug = candidate(t, k)

\* C1 (amended): after sequential creations, each category is stored with
\* the first slug of t, t-1, t-2, ... that no earlier category holds; unless a
\* category whose name slugifies to another token holds one of t, ..., t-k,
\* that is t for the first and t-k for the k-th later category of token t.
C1_FirstFreeSlug ==
  \A j \in StoredIds :
    LET t == createSlug(store[j].name)
        taken == {store[i].slug : i \in Earlier(j)}
        free == {n \in 0..Cardinality(taken) : candidate(t, n) \notin taken}
        first == CHOOSE n \in free : \A m \in free : n <= m
        k == Cardinality({i \in Earlier(j) : createSlug(store[i].name) = t})
    IN /\ store[j].slug = candidate(t, first)
       /\ (\A i \in Earlier(j) :
             createSlug(store[i].name) # t
               => store[i].slug \notin {candidate(t, n) : n \in 0..k})
            => store[j].slug = candidate(t, k)

\* Three categories whose names share a slug, the last one suffixed -2.
C1_Witness ==
  /\ Cardinality(StoredIds) = 3
  /\ \A j \in StoredIds : createSlug(store[j].name) = <<"a">>
  /\ \E j \in StoredIds : store[j].slug = <<"a", "-", "2">>

\* C2: no two persisted categories have the same slug, in every interleaving
\* of requests.
C2_UniqueSlugs ==
  \A i \in StoredIds : \A j \in StoredIds : i # j => store[i].slug # store[j].slug

\* A creation whose pre-save check found its slug free is refused at the
\* insert, because a category with another name took that slug meanwhile.
C2_Witness ==
  /\ lastResponse.op = "create"
  /\ lastResponse.status = "duplicateKey"
  /\ \E j \in StoredIds :
       /\ store[j].slug = lastResponse.payload[1].slug
       /\ store[j].name # lastResponse.payload[1].name
  /\ \A j \in StoredIds : store[j].name # lastResponse.payload[1].name

\* The documents below c in the parent relation, at every depth.
RECURSIVE below(_, _)
below(st, S) ==
  LET more == S \cup {j \in DOMAIN st : st[j].parent \in S}
  IN IF more = S THEN S ELSE below(st, more)
Descendants(st, c) == below(st, {j \in DOMAIN st : st[j].parent = c})

\* The ids of the nodes nested in a populated node, in order, the node's own
\* id left out.
RECURSIVE concat(_)
concat(ss) == IF ss = <<>> THEN <<>> ELSE Head(ss) \o concat(Tail(ss))
RECURSIVE nested(_)
nested(node) ==
  IF "children" \notin DOMAIN node THEN <<>>
  ELSE concat([k \in 1..Len(node.children) |->
                 <<node.children[k].id>> \o nested(node.children[k])])

\* Every node of the structure has a children field, and every child sits
\* under its own parent.
RECURSIVE wellFormed(_, _)
wellFormed(st, node) ==
  /\ "children" \in DOMAIN node
  /\ \A k \in 1..Len(node.children) :
       /\ node.children[k].id \in DOMAIN st
       /\ st[node.children[k].id].parent = node.id
       /\ wellFormed(st, node.children[k])

NoDuplicates(seq) == \A a \in 1..Len(seq) : \A b \in 1..Len(seq) : a # b => seq[a] # seq[b]
Range(seq) == {seq[k] : k \in 1..Len(seq)}

AcyclicBelow(st, c) ==
  /\ c \notin Descendants(st, c)
  /\ \A d \in Descendants(st, c) : d \notin Descendants(st, d)

\* getCategory answered 200 with a structure that holds exactly the
\* descendants of its category, each once and under its own parent, every
\* node (leaves too) with a children field.
FullSubtree ==
  /\ lastResponse.status = "ok"
  /\ LET tree == lastResponse.payload[1] IN
     /\ tree.id = lastResponse.id
     /\ NoDuplicates(nested(tree))
     /\ Range(nested(tree)) = Descendants(store, tree.id)
     /\ wellFormed(store, tree)

\* getCategory has answered for a category it found.
Fetched == lastResponse.op = "getCategory" /\ lastResponse.status # "notFound"

\* C3 (as stated): getCategory on a persisted category with an acyclic subtree
\* answers with a structure that holds exactly its descendants, every node
\* with a children field.
C3_FullSubtree ==
  Fetched /\ lastResponse.id \in StoredIds /\ AcyclicBelow(store, lastResponse.id)
    => FullSubtree

\* C3 (amended): when no write changes the collection between the findOne of
\* getCategory and its response, getCategory answers for a persisted category
\* with an acyclic subtree, with a structure that holds exactly its
\* descendants, every node with a children field.
C3_FullSubtreeUndisturbed ==
  Fetched /\ lastResponse.undisturbed =>
    /\ lastResponse.id \in StoredIds
    /\ AcyclicBelow(store, lastResponse.id)
    /\ FullSubtree

\* getCategory answered with a root, its child and its grandchild, no write
\* having changed the collection meanwhile.
C3_Witness ==
  /\ Fetched
  /\ lastResponse.status = "ok"
  /\ lastResponse.undisturbed
  /\ Len(nested(lastResponse.payload[1])) = 2
  /\ Len(lastResponse.payload[1].children) = 1

\* Every image the stored category `id` lists has been issued a destroy call.
ImagesDestroyed(id) ==
  \A k \in 1..Len(store[id].images) : calls(destroyCalls, store[id].images[k].id) >= 1

\* The step ends the handler `op` of slot r.
Ends(r, op) == reqs[r].op = op /\ reqs'[r].op = "idle"

\* C4: a document leaves the store only in the last step of a delete handler
\* on it, after a destroy call was issued for every image the category
\* lists; a destroy call that fails ends the handler with the store as it
\* was; when a delete has answered, its id is not in the store.
C4_DeleteAfterMedia ==
  /\ [][ /\ \A id \in DOMAIN store \ DOMAIN store' :
              /\ \E r \in Slots : Ends(r, "delete") /\ reqs[r].id = id
              /\ ImagesDestroyed(id)
         /\ \A r \in Slots :
              Ends(r, "delete") /\ lastResponse'.status = "mediaError" => store' = store
       ]_vars
  /\ [](lastResponse.op = "delete" /\ lastResponse.status = "deleted"
          => lastResponse.id \notin DOMAIN store)

\* C5: every asset id is issued exactly one destroy call when an update
\* replaces the images that carry it (never a second one), in every
\* interleaving.
C5_OneDestroyCallPerAsset ==
  \A a \in DOMAIN destroyCalls : destroyCalls[a] <= 1

\* slug is the slugified name, or that followed by -n.
isDerived(slug, name) ==
  \/ slug = createSlug(name)
  \/ \E n \in 1..MaxRequests : slug = candidate(createSlug(name), n)

\* C6: every persisted category's slug is derived from its current name and
\* is never the client's.
C6_SlugDerivedFromName ==
  \A j \in StoredIds : isDerived(store[j].slug, store[j].name)

\* C7: every document getAllSubCategories returns has a parent, with or
\* without a parentId filter, and the filter's parent when there is one.
C7_OnlySubCategories ==
  lastResponse.op = "getAllSubCategories" =>
    \A k \in 1..Len(lastResponse.payload) :
      /\ "parent" \in DOMAIN lastResponse.payload[k]
      /\ lastResponse.payload[k].parent # Null
      /\ lastResponse.id # Null => lastResponse.payload[k].parent = lastResponse.id

\* C8: the parent relation never holds a cycle (so that the recursive
\* expansion ends for every persisted category).
C8_ParentAcyclic ==
  \A j \in StoredIds : j \notin Descendants(store, j)

\* The step is the persistence write of the update handler in slot r (it
\* answers what findByIdAndUpdate did).
UpdateWritten(r) ==
  /\ Ends(r, "update")
  /\ lastResponse'.status \in {"ok", "validationError", "duplicateKey", "storeError"}

\* C9: the update's write, when it has new files, comes after a destroy call
\* for every image the category lists; a write that fails leaves the store
\* as it was, the old images (their assets destroyed) listed and none of the
\* new ones; an update of an id the store does not hold is answered not
\* found at once, with no destroy call and no change of the store, and no
\* other update is answered at once.
C9_UpdateFailureOrdering ==
  [][ /\ \A r \in Slots :
           /\ UpdateWritten(r) /\ reqs[r].body.files > 0 /\ reqs[r].id \in DOMAIN store
                => ImagesDestroyed(reqs[r].id)
           /\ UpdateWritten(r) /\ lastResponse'.status # "ok" =>
                /\ store' = store
                /\ \A j \in DOMAIN store' :
                     Range(store'[j].images) \cap Range(reqs[r].newImages) = {}
           /\ reqs[r].op = "idle" /\ reqs'[r].op = "update" =>
                reqs'[r].id \in DOMAIN store
      /\ started' # started /\ lastResponse'.op = "update" =>
           /\ lastResponse'.status = "notFound"
           /\ lastResponse'.id \notin DOMAIN store
           /\ store' = store
           /\ destroyCalls' = destroyCalls
    ]_vars

\* C10: every persisted category with a parent references a persisted
\* category.
C10_ParentExists ==
  \A j \in StoredIds : store[j].parent # Null => store[j].parent \in StoredIds

====
